---- MODULE Spec2Model ----
(***************************************************************************)
(* Model of the JTAG / AVR PDI protocol decoder (pd.py).                   *)
(*                                                                         *)
(* Bit strings ('0'/'1' Python strings) are sequences over {0, 1}, most    *)
(* significant character first; Python index k is TLA+ index k + 1.        *)
(* Annotation texts are built as strings exactly as the f-strings do.      *)
(* A Python exception raised inside decode() is recorded in `fault`; the   *)
(* annotations put before the raise stay emitted, the assignments after    *)
(* it do not happen, and the decoder processes no further event.           *)
(*                                                                         *)
(* cmd, val, ss, es are the arguments of the last decode() call, prev is   *)
(* self.state on entry of that call, out the annotations it has put and    *)
(* ret what checkParity handed back during it.                             *)
(***************************************************************************)
EXTENDS Integers, Sequences, FiniteSets, TLC

VARIABLES state, prev, samplenums, ss, es, cmd, val, out, ret, fault

vars == <<state, prev, samplenums, ss, es, cmd, val, out, ret, fault>>

-----------------------------------------------------------------------------
(* Bounds of the model                                                     *)

\* longest instruction-register shift
MaxIRLen == 5
\* longest data-register shift other than the 32-bit identification words
MaxShiftLen == 10

-----------------------------------------------------------------------------
(* Python string and list primitives                                       *)

Bit == {0, 1}

\* every bit string of n characters
RECURSIVE BitStrings(_)
BitStrings(n) ==
    IF n = 0 THEN {<<>>}
    ELSE {Append(s, b) : s \in BitStrings(n - 1), b \in Bit}

Min(a, b) == IF a < b THEN a ELSE b
Max(a, b) == IF a > b THEN a ELSE b

\* normalisation of one slice bound: negative bounds count from the end and
\* every bound is clamped to 0..len
SliceIndex(i, len) == IF i < 0 THEN Max(i + len, 0) ELSE Min(i, len)

\* s[lo:hi]
Slice(s, lo, hi) ==
    LET l == SliceIndex(lo, Len(s))
        h == SliceIndex(hi, Len(s))
    IN  IF l < h THEN SubSeq(s, l + 1, h) ELSE <<>>

\* s[lo:]
SliceFrom(s, lo) == Slice(s, lo, Len(s))

\* the list left in the order it was delivered in
Reverse_Identity(s) == s

\* list.reverse()
RECURSIVE Reverse(_)
Reverse(s) == IF s = <<>> THEN <<>> ELSE Append(Reverse(Tail(s)), Head(s))

\* int('0b' + bits, 2) for a non-empty bit string
RECURSIVE BinValue(_)
BinValue(bits) ==
    IF bits = <<>> THEN 0
    ELSE 2 * BinValue(SubSeq(bits, 1, Len(bits) - 1)) + bits[Len(bits)]

\* sum(int(bit) for bit in bits)
RECURSIVE OnesCount(_)
OnesCount(bits) ==
    IF bits = <<>> THEN 0 ELSE bits[1] + OnesCount(Tail(bits))

\* the characters of a bit string, as text
RECURSIVE BitsText(_)
BitsText(bits) ==
    IF bits = <<>> THEN ""
    ELSE (IF bits[1] = 1 THEN "1" ELSE "0") \o BitsText(Tail(bits))

HexDigit == <<"0", "1", "2", "3", "4", "5", "6", "7",
              "8", "9", "a", "b", "c", "d", "e", "f">>

\* hexadecimal digits of a natural number, no prefix, no padding
RECURSIVE HexDigits(_)
HexDigits(n) ==
    IF n < 16 THEN HexDigit[n + 1]
    ELSE HexDigits(n \div 16) \o HexDigit[(n % 16) + 1]

\* '{:#x}'.format(n)
HexText(n) == "0x" \o HexDigits(n)

\* f'{n:#04x}': minimum width 4 including the 0x prefix
HexText04(n) == IF n < 16 THEN "0x0" \o HexDigits(n) ELSE HexText(n)

\* decimal rendering of a small natural number
RECURSIVE DecText(_)
DecText(n) ==
    IF n < 10 THEN HexDigit[n + 1]
    ELSE DecText(n \div 10) \o HexDigit[(n % 10) + 1]

\* '{:#x}'.format(int('0b' + bits, 2)) computed nibble by nibble from the
\* least significant end, so that a 32-bit value keeps all of its digits
RECURSIVE WideHexDigits(_)
WideHexDigits(bits) ==
    IF Len(bits) <= 4 THEN HexDigits(BinValue(bits))
    ELSE LET hi == SubSeq(bits, 1, Len(bits) - 4)
             lo == SubSeq(bits, Len(bits) - 3, Len(bits))
         IN  IF \A i \in 1..Len(hi) : hi[i] = 0
             THEN HexDigits(BinValue(lo))
             ELSE WideHexDigits(hi) \o HexDigit[BinValue(lo) + 1]

WideHexText(bits) == "0x" \o WideHexDigits(bits)

\* characters of a register name, for the substring test of decode()
RECURSIVE IsPrefix(_, _)
IsPrefix(a, b) ==
    \/ a = <<>>
    \/ /\ b # <<>>
       /\ a[1] = b[1]
       /\ IsPrefix(Tail(a), Tail(b))

\* a in b, for Python strings
RECURSIVE IsSubstring(_, _)
IsSubstring(a, b) ==
    \/ IsPrefix(a, b)
    \/ /\ b # <<>>
       /\ IsSubstring(a, Tail(b))

-----------------------------------------------------------------------------
(* Lookup tables                                                           *)

\* ir with BYPASS as the default of the lookup
ir_DefaultBypass(key) ==
    IF key = <<0, 0, 1, 1>> THEN <<"IDCODE", 32>>
    ELSE IF key = <<0, 1, 1, 1>> THEN <<"PDICOM", 9>>
    ELSE <<"BYPASS", 1>>

\* ir with IDLE as the default of the lookup
ir_DefaultIdle(key) ==
    IF key = <<0, 0, 1, 1>> THEN <<"IDCODE", 32>>
    ELSE IF key = <<0, 1, 1, 1>> THEN <<"PDICOM", 9>>
    ELSE IF key = <<1, 1, 1, 1>> THEN <<"BYPASS", 1>>
    ELSE <<"IDLE", 0>>

\* ir: 4-bit prefix -> [register name, width]
ir(key) ==
    IF key = <<0, 0, 1, 1>> THEN <<"IDCODE", 32>>
    ELSE IF key = <<0, 1, 1, 1>> THEN <<"PDICOM", 9>>
    ELSE IF key = <<1, 1, 1, 1>> THEN <<"BYPASS", 1>>
    ELSE <<"UNKNOWN", 0>>

\* jedec_id.get(id, 'INVALID')
jedec_id(id) == IF id = 31 THEN "Atmel" ELSE "INVALID"

\* avr_idcode.get(part, f'{part:#x}')
avr_idcode(part) ==
    IF part = 38466 THEN "ATXMega64A3U"
    ELSE IF part = 38722 THEN "ATXMega128A3U"
    ELSE IF part = 38724 THEN "ATXMega192A3U"
    ELSE IF part = 38978 THEN "ATXMega256A3U"
    ELSE HexText(part)

\* PDIDecoder.special_character.get(data, 'INVALID')
special_character(data) ==
    IF data = 187 THEN "BREAK"
    ELSE IF data = 219 THEN "DELAY"
    ELSE IF data = 235 THEN "EMPTY"
    ELSE "INVALID"

\* class Annotations
JTAG_ITEM == 0
JTAG_FIELD == 1
JTAG_COMMAND == 2
JTAG_WARNING == 3
DATA_IN == 4
PARITY_IN_OK == 5
PARITY_IN_ERR == 6
DATA_OUT == 7
PARITY_OUT_OK == 8
PARITY_OUT_ERR == 9
DATA_PROG == 12
DATA_DEV == 13
PARITY_OK == 0
PARITY_ERR == 1

\* PDIDecoder.ann_class[dir][value]
ann_class(dir, value) ==
    IF dir = DATA_IN
    THEN (IF value = PARITY_OK THEN PARITY_IN_OK ELSE PARITY_IN_ERR)
    ELSE (IF value = PARITY_OK THEN PARITY_OUT_OK ELSE PARITY_OUT_ERR)

\* PDIDecoder.ann_class_text[value]
ann_class_text(value) ==
    IF value = PARITY_OK THEN <<"Parity OK", "Par OK", "P">>
    ELSE <<"Parity error", "Par ERR", "PE">>

\* the characters of the register names
NameChars(name) ==
    CASE name = "IDLE"    -> <<"I", "D", "L", "E">>
      [] name = "BYPASS"  -> <<"B", "Y", "P", "A", "S", "S">>
      [] name = "IDCODE"  -> <<"I", "D", "C", "O", "D", "E">>
      [] name = "PDICOM"  -> <<"P", "D", "I", "C", "O", "M">>
      [] name = "UNKNOWN" -> <<"U", "N", "K", "N", "O", "W", "N">>

-----------------------------------------------------------------------------
(* Annotation output.  Every put* returns the fault it raises, if any, and *)
(* the annotation records it hands to the sink.                            *)

NoFault == "none"

Ann(s, e, cls, text) == [ss |-> s, es |-> e, cls |-> cls, text |-> text]

Done(anns) == [fault |-> NoFault, anns |-> anns]
Raise(f) == [fault |-> f, anns |-> <<>>]

\* statements run in sequence until one of them raises
RECURSIVE Chain(_)
Chain(rs) ==
    IF rs = <<>> THEN Done(<<>>)
    ELSE IF rs[1].fault # NoFault THEN rs[1]
    ELSE LET rest == Chain(Tail(rs))
         IN  [fault |-> rest.fault, anns |-> rs[1].anns \o rest.anns]

\* Decoder.putx
putx(s, e, cls, text) == Done(<<Ann(s, e, cls, text)>>)

\* Decoder.putf: samplenums[s][0] .. samplenums[e][1]
putf(smp, s, e, cls, text) ==
    IF s >= Len(smp) \/ e >= Len(smp) THEN Raise("IndexError")
    ELSE Done(<<Ann(smp[s + 1][1], smp[e + 1][2], cls, text)>>)

\* putb covering the next bit as well
putb_Wide(smp, b, cls, text) == putf(smp, b, b + 1, cls, text)

\* Decoder.putb
putb(smp, b, cls, text) == putf(smp, b, b, cls, text)

\* PDIDecoder.putb
pdi_putb(smp, bit, dir, value) ==
    putb(smp, bit, ann_class(dir, value), ann_class_text(value))

\* put_special with the two categories exchanged
put_special_Swapped(s, e, data, dir) ==
    IF dir = DATA_IN
    THEN putx(s, e, DATA_DEV, <<special_character(data)>>)
    ELSE putx(s, e, DATA_PROG, <<special_character(data)>>)

\* PDIDecoder.put_special
put_special(s, e, data, dir) ==
    IF dir = DATA_IN
    THEN putx(s, e, DATA_PROG, <<special_character(data)>>)
    ELSE putx(s, e, DATA_DEV, <<special_character(data)>>)

-----------------------------------------------------------------------------
(* Register handlers                                                       *)

\* decode_device_id_code with the manufacturer read from bits[-11:]
decode_device_id_code_LastBits(bits) ==
    LET versionBits == Slice(bits, -32, -28)
        partBits    == Slice(bits, -28, -12)
        manufBits   == SliceFrom(bits, -11)
    IN  IF versionBits = <<>> \/ partBits = <<>> \/ manufBits = <<>>
           \/ bits = <<>>
        THEN [fault |-> "ValueError"]
        ELSE [fault        |-> NoFault,
              id_hex       |-> WideHexText(bits),
              manufacturer |-> jedec_id(BinValue(manufBits)),
              version      |-> BinValue(versionBits),
              part         |-> avr_idcode(BinValue(partBits))]

\* decode_device_id_code: int('0b' + slice, 2) raises ValueError on an
\* empty slice
decode_device_id_code(bits) ==
    LET versionBits == Slice(bits, -32, -28)
        partBits    == Slice(bits, -28, -12)
        manufBits   == Slice(bits, -12, -1)
    IN  IF versionBits = <<>> \/ partBits = <<>> \/ manufBits = <<>>
           \/ bits = <<>>
        THEN [fault |-> "ValueError"]
        ELSE [fault        |-> NoFault,
              id_hex       |-> WideHexText(bits),
              manufacturer |-> jedec_id(BinValue(manufBits)),
              version      |-> BinValue(versionBits),
              part         |-> avr_idcode(BinValue(partBits))]

\* Decoder.handle_reg_bypass
handle_reg_bypass(s, e, bits) ==
    putx(s, e, JTAG_ITEM, <<"BYPASS: " \o BitsText(bits)>>)

\* handle_reg_idcode putting the command annotation before the item
handle_reg_idcode_CommandFirst(smp, s, e, bits) ==
    LET id == decode_device_id_code(bits)
    IN  IF id.fault # NoFault THEN Raise(id.fault)
        ELSE Chain(<<
            putb(smp, 0, JTAG_FIELD, <<"Reserved", "Res", "R">>),
            putf(smp, 1, 11, JTAG_FIELD,
                 <<"Manufacturer: " \o id.manufacturer, "Manuf", "M">>),
            putf(smp, 12, 27, JTAG_FIELD,
                 <<"Part: " \o id.part, "Part", "P">>),
            putf(smp, 28, 31, JTAG_FIELD,
                 <<"Version: " \o DecText(id.version), "Version", "V">>),
            putx(s, e, JTAG_COMMAND,
                 <<"IDCODE: " \o id.id_hex \o " (" \o id.manufacturer \o ": "
                   \o id.part \o "@r" \o DecText(id.version) \o ")">>),
            putx(s, e, JTAG_ITEM, <<"IDCODE: " \o id.id_hex>>) >>)

\* handle_reg_idcode placing the fields at their string positions
handle_reg_idcode_StringOrder(smp, s, e, bits) ==
    LET id == decode_device_id_code(bits)
    IN  IF id.fault # NoFault THEN Raise(id.fault)
        ELSE Chain(<<
            putb(smp, 31, JTAG_FIELD, <<"Reserved", "Res", "R">>),
            putf(smp, 20, 30, JTAG_FIELD,
                 <<"Manufacturer: " \o id.manufacturer, "Manuf", "M">>),
            putf(smp, 4, 19, JTAG_FIELD,
                 <<"Part: " \o id.part, "Part", "P">>),
            putf(smp, 0, 3, JTAG_FIELD,
                 <<"Version: " \o DecText(id.version), "Version", "V">>),
            putx(s, e, JTAG_ITEM, <<"IDCODE: " \o id.id_hex>>),
            putx(s, e, JTAG_COMMAND,
                 <<"IDCODE: " \o id.id_hex \o " (" \o id.manufacturer \o ": "
                   \o id.part \o "@r" \o DecText(id.version) \o ")">>) >>)

\* Decoder.handle_reg_idcode
handle_reg_idcode(smp, s, e, bits) ==
    LET id == decode_device_id_code(bits)
    IN  IF id.fault # NoFault THEN Raise(id.fault)
        ELSE Chain(<<
            putb(smp, 0, JTAG_FIELD, <<"Reserved", "Res", "R">>),
            putf(smp, 1, 11, JTAG_FIELD,
                 <<"Manufacturer: " \o id.manufacturer, "Manuf", "M">>),
            putf(smp, 12, 27, JTAG_FIELD,
                 <<"Part: " \o id.part, "Part", "P">>),
            putf(smp, 28, 31, JTAG_FIELD,
                 <<"Version: " \o DecText(id.version), "Version", "V">>),
            putx(s, e, JTAG_ITEM, <<"IDCODE: " \o id.id_hex>>),
            putx(s, e, JTAG_COMMAND,
                 <<"IDCODE: " \o id.id_hex \o " (" \o id.manufacturer \o ": "
                   \o id.part \o "@r" \o DecText(id.version) \o ")">>) >>)

-----------------------------------------------------------------------------
(* PDI frame decoder                                                       *)

\* the value checkParity hands back: a (data, parityOK) pair, or the
\* exception that left it
NoCall == [kind |-> "none", data |-> 0, parityOK |-> FALSE]
Returned(data, ok) == [kind |-> "return", data |-> data, parityOK |-> ok]
Raised(f) == [kind |-> f, data |-> 0, parityOK |-> FALSE]

\* parityOK with odd parity
parityOK_Odd(onesCount, parity) == (onesCount + parity) % 2 = 1

\* parityOK computed over the data bits alone
parityOK_DataOnly(onesCount, parity) == onesCount % 2 = 0

\* parityOK = (onesCount + parity) & 1 == 0
parityOK(onesCount, parity) == (onesCount + parity) % 2 = 0

\* PDIDecoder.checkParity; the statements are kept in source order: the
\* reads of value[0] and value[1:] come before the length test
checkParity(smp, s, e, value, dir) ==
    IF Len(value) = 0
    THEN [fault |-> "IndexError", anns |-> <<>>, ret |-> Raised("IndexError")]
    ELSE IF SliceFrom(value, 1) = <<>>
    THEN [fault |-> "ValueError", anns |-> <<>>, ret |-> Raised("ValueError")]
    ELSE
    LET parity   == value[1]
        data     == BinValue(SliceFrom(value, 1))
        dataText == HexText04(data)
        ok       == parityOK(OnesCount(SliceFrom(value, 1)), parity)
    IN  IF Len(value) # 9
        THEN [fault |-> NoFault, anns |-> <<>>, ret |-> Returned(0, FALSE)]
        ELSE
        LET puts == Chain(<<
                putf(smp, 0, 7, dir, <<"Data: " \o dataText,
                                       "D: " \o dataText, dataText>>),
                pdi_putb(smp, 8, dir, IF ok THEN PARITY_OK ELSE PARITY_ERR),
                IF ~ok THEN put_special(s, e, data, dir) ELSE Done(<<>>) >>)
        IN  [fault |-> puts.fault, anns |-> puts.anns,
             ret   |-> IF puts.fault = NoFault THEN Returned(data, ok)
                       ELSE Raised(puts.fault)]

\* PDIDecoder.handleInput
handleInput(smp, s, e, value) == checkParity(smp, s, e, value, DATA_IN)

\* PDIDecoder.handleOutput
handleOutput(smp, s, e, value) == checkParity(smp, s, e, value, DATA_OUT)

-----------------------------------------------------------------------------
(* The dispatch entry point                                                *)

\* the register looked up from the last four bits of the value
SelectRegister_Last4(v) == ir(SliceFrom(v, -4))[1]

\* self.state = ir.get(val[0:4], ['UNKNOWN', 0])[0]
SelectRegister(v) == ir(Slice(v, 0, 4))[1]

\* the result of one decode() call that ran to completion or raised
Result(st, o, r, f) == [state |-> st, out |-> o, ret |-> r, fault |-> f]

\* the BYPASS branch taken for both directions
DispatchBypass_AnyDirection(st, c, v, s, e, o) ==
    IF c \notin {"DR TDI", "DR TDO"} THEN Result(st, o, NoCall, NoFault)
    ELSE Result("IDLE", o \o handle_reg_bypass(s, e, v).anns, NoCall, NoFault)

\* the BYPASS branch
DispatchBypass(st, c, v, s, e, o) ==
    IF c # "DR TDI" THEN Result(st, o, NoCall, NoFault)
    ELSE Result("IDLE", o \o handle_reg_bypass(s, e, v).anns, NoCall, NoFault)

\* the IDCODE branch taken for both directions
DispatchIdcode_AnyDirection(st, smp, c, v, s, e, o) ==
    IF c \notin {"DR TDI", "DR TDO"} THEN Result(st, o, NoCall, NoFault)
    ELSE LET h == handle_reg_idcode(smp, s, e, v)
         IN  IF h.fault # NoFault
             THEN Result(st, o \o h.anns, NoCall, h.fault)
             ELSE Result("IDLE", o \o h.anns, NoCall, NoFault)

\* the IDCODE branch
DispatchIdcode(st, smp, c, v, s, e, o) ==
    IF c # "DR TDO" THEN Result(st, o, NoCall, NoFault)
    ELSE LET h == handle_reg_idcode(smp, s, e, v)
         IN  IF h.fault # NoFault
             THEN Result(st, o \o h.anns, NoCall, h.fault)
             ELSE Result("IDLE", o \o h.anns, NoCall, NoFault)

\* the PDICOM branch going back to IDLE after each frame
DispatchPdicom_Reset(st, smp, c, v, s, e, o) ==
    IF c \notin {"DR TDI", "DR TDO"} THEN Result(st, o, NoCall, NoFault)
    ELSE IF c = "DR TDI"
    THEN LET h == handleInput(smp, s, e, v)
         IN  Result("IDLE", o \o h.anns, h.ret, h.fault)
    ELSE LET p == putx(s, e, JTAG_COMMAND, <<"PDICOM">>)
             h == handleOutput(smp, s, e, v)
         IN  Result("IDLE", o \o p.anns \o h.anns, h.ret, h.fault)

\* the PDICOM branch putting the command annotation after the frame
DispatchPdicom_CommandLast(st, smp, c, v, s, e, o) ==
    IF c \notin {"DR TDI", "DR TDO"} THEN Result(st, o, NoCall, NoFault)
    ELSE IF c = "DR TDI"
    THEN LET h == handleInput(smp, s, e, v)
         IN  Result(st, o \o h.anns, h.ret, h.fault)
    ELSE LET p == putx(s, e, JTAG_COMMAND, <<"PDICOM">>)
             h == handleOutput(smp, s, e, v)
         IN  Result(st, o \o h.anns \o p.anns, h.ret, h.fault)

\* the PDICOM branch
DispatchPdicom(st, smp, c, v, s, e, o) ==
    IF c \notin {"DR TDI", "DR TDO"} THEN Result(st, o, NoCall, NoFault)
    ELSE IF c = "DR TDI"
    THEN LET h == handleInput(smp, s, e, v)
         IN  Result(st, o \o h.anns, h.ret, h.fault)
    ELSE LET p == putx(s, e, JTAG_COMMAND, <<"PDICOM">>)
             h == handleOutput(smp, s, e, v)
         IN  Result(st, o \o p.anns \o h.anns, h.ret, h.fault)

\* Decoder.decode from the IR test on; smp is self.samplenums as the call
\* has set it
decode(st0, smp, c, v, s, e) ==
    LET st == IF c = "IR TDI" THEN SelectRegister(v) ELSE st0
        o  == IF c = "IR TDI"
              THEN putx(s, e, 2, <<"IR: " \o st>>).anns
              ELSE <<>>
    IN  IF st = "BYPASS" THEN DispatchBypass(st, c, v, s, e, o)
        ELSE IF IsSubstring(NameChars(st), NameChars("IDCODE"))
        THEN DispatchIdcode(st, smp, c, v, s, e, o)
        ELSE IF st = "PDICOM" THEN DispatchPdicom(st, smp, c, v, s, e, o)
        ELSE Result(st, o, NoCall, NoFault)

-----------------------------------------------------------------------------
(* Events delivered by the upstream JTAG decoder                           *)

\* n as a bit string of w characters, most significant first
RECURSIVE ToBits(_, _)
ToBits(n, w) ==
    IF w = 0 THEN <<>> ELSE Append(ToBits(n \div 2, w - 1), n % 2)

\* the first n characters of the pattern k repeated
RECURSIVE Repeated(_, _)
Repeated(k, n) ==
    IF n = 0 THEN <<>>
    ELSE Append(Repeated(k, n - 1), k[((n - 1) % Len(k)) + 1])

\* instruction-register shifts: every 4-bit value, and shifts of every other
\* length up to MaxIRLen that start like the three known instructions
IRShifts ==
    BitStrings(4) \cup
    {Repeated(k, n) : k \in {<<0, 0, 1, 1>>, <<0, 1, 1, 1>>, <<1, 1, 1, 1>>},
                      n \in (0..MaxIRLen) \ {4}}

\* a PDI frame: the parity bit, then the data byte most significant first
Frame(p, d) == <<p>> \o ToBits(d, 8)

\* PDI frames: every bit string of 9 bits
Frames == BitStrings(9)

\* frames carrying the three special characters and three plain bytes, with
\* either parity bit
ProbeFrames == {Frame(p, d) : p \in Bit, d \in {187, 219, 235, 0, 255, 90}}

\* shifts of every other length up to MaxShiftLen
OddShifts ==
    {Repeated(k, n) : k \in {<<0>>, <<1, 0>>}, n \in (0..MaxShiftLen) \ {9}}

\* field values of the 32-bit identification words
ReservedVals == {0, 1}
ManufacturerVals == {31, 248}
PartVals == {38466, 4660}
VersionVals == 0..15
ProbeVersionVals == {0, 5}

\* version, part, manufacturer and the last bit, most significant first
IdWord(r, m, p, v) == ToBits(v, 4) \o ToBits(p, 16) \o ToBits(m, 11) \o <<r>>

\* the same four fields in the opposite order
IdWordReversed(r, m, p, v) ==
    <<r>> \o ToBits(m, 11) \o ToBits(p, 16) \o ToBits(v, 4)

IdWordsOf(versions) ==
    {IdWord(r, m, p, v) : r \in ReservedVals, m \in ManufacturerVals,
                          p \in PartVals, v \in versions}
    \cup
    {IdWordReversed(r, m, p, v) : r \in ReservedVals, m \in ManufacturerVals,
                                  p \in PartVals, v \in versions}

\* identification words shifted with too few or too many bits
WrongWidthWords ==
    LET w == IdWord(1, 31, 38466, 5)
    IN  {SliceFrom(w, k) : k \in 1..4} \cup {<<0>> \o w}

\* data-register shifts of the event stream
DRShifts ==
    ProbeFrames \cup OddShifts \cup IdWordsOf(ProbeVersionVals)
    \cup WrongWidthWords

\* data-register shifts of the single-shift exploration: every bit string
\* of up to MaxShiftLen bits (every 9-bit frame among them when
\* MaxShiftLen >= 9) and the identification words of every version
AllDRShifts ==
    UNION {BitStrings(n) : n \in 0..MaxShiftLen} \cup Frames
    \cup IdWordsOf(VersionVals) \cup WrongWidthWords

\* names of TAP states carried by a state-only notification
TapStates == {"SHIFT-DR", "UPDATE-DR"}

\* the per-bit sample ranges of a shift of n bits, one [start, end] pair per
\* character of the bit string and in the same order: the first character
\* is the bit shifted last
RECURSIVE Delivered(_)
Delivered(n) ==
    IF n = 0 THEN <<>>
    ELSE <<<<2 * (n - 1), 2 * (n - 1) + 1>>>> \o Delivered(n - 1)

\* start and end sample of the whole event: from the start of the bit
\* shifted first to the end of the bit shifted last
EventStart(d) == IF d = <<>> THEN 0 ELSE d[Len(d)][1]
EventEnd(d) == IF d = <<>> THEN 0 ELSE d[1][2]

-----------------------------------------------------------------------------
(* State machine                                                           *)

\* Decoder.__init__ / reset: no event has been decoded yet.  samplenums is
\* None and ss, es are unset until the first call of decode(), which assigns
\* them before any read.
Init ==
    /\ state = "IDLE"
    /\ prev = "IDLE"
    /\ samplenums = <<>>
    /\ ss = 0
    /\ es = 0
    /\ cmd = "none"
    /\ val = <<>>
    /\ out = <<>>
    /\ ret = NoCall
    /\ fault = NoFault

\* decode(ss, es, ['NEW STATE', val]): samplenums is left alone
NewState ==
    \E t \in TapStates :
        LET r == decode(state, samplenums, "NEW STATE", t, 0, 0)
        IN  /\ fault = NoFault
            /\ prev' = state
            /\ cmd' = "NEW STATE"
            /\ val' = t
            /\ ss' = 0
            /\ es' = 0
            /\ state' = r.state
            /\ out' = r.out
            /\ ret' = r.ret
            /\ fault' = r.fault
            /\ UNCHANGED samplenums

\* decode(ss, es, [c, [v, samplenums]]) for a shift event
Shift(c, v) ==
    LET smp == Reverse(Delivered(Len(v)))
        s   == EventStart(Delivered(Len(v)))
        e   == EventEnd(Delivered(Len(v)))
        r   == decode(state, smp, c, v, s, e)
    IN  /\ fault = NoFault
        /\ prev' = state
        /\ cmd' = c
        /\ val' = v
        /\ ss' = s
        /\ es' = e
        /\ samplenums' = smp
        /\ state' = r.state
        /\ out' = r.out
        /\ ret' = r.ret
        /\ fault' = r.fault

IrTdi == \E v \in IRShifts : Shift("IR TDI", v)

IrTdo == \E v \in IRShifts : Shift("IR TDO", v)

DrTdi == \E v \in DRShifts : Shift("DR TDI", v)

DrTdo == \E v \in DRShifts : Shift("DR TDO", v)

Next == NewState \/ IrTdi \/ IrTdo \/ DrTdi \/ DrTdo

Spec == Init /\ [][Next]_vars

-----------------------------------------------------------------------------
(* Single-shift exploration: the decoder right after an IR TDI event has   *)
(* selected a register, followed by one data-register shift drawn from the *)
(* exhaustive set.                                                         *)

InitSelected ==
    \E v \in BitStrings(4) :
        LET smp == Reverse(Delivered(Len(v)))
            s   == EventStart(Delivered(Len(v)))
            e   == EventEnd(Delivered(Len(v)))
            r   == decode("IDLE", smp, "IR TDI", v, s, e)
        IN  /\ prev = "IDLE"
            /\ cmd = "IR TDI"
            /\ val = v
            /\ ss = s
            /\ es = e
            /\ samplenums = smp
            /\ state = r.state
            /\ out = r.out
            /\ ret = r.ret
            /\ fault = r.fault

FirstDrTdi == cmd = "IR TDI" /\ \E v \in AllDRShifts : Shift("DR TDI", v)

FirstDrTdo == cmd = "IR TDI" /\ \E v \in AllDRShifts : Shift("DR TDO", v)

NextFirstShift == FirstDrTdi \/ FirstDrTdo

SpecFirstShift == InitSelected /\ [][NextFirstShift]_vars

-----------------------------------------------------------------------------
(* Properties                                                              *)

DRCommands == {"DR TDI", "DR TDO"}

KnownPrefixes == {<<0, 0, 1, 1>>, <<0, 1, 1, 1>>, <<1, 1, 1, 1>>}

\* the first four bits of an instruction-register value
Prefix4(v) == SubSeq(v, 1, IF Len(v) < 4 THEN Len(v) ELSE 4)

\* C1: an IR-shift event whose first 4 bits are none of 0011, 0111, 1111
\* selects UNKNOWN, and while UNKNOWN is selected every DR-shift event, TDI
\* or TDO, emits no annotation and leaves UNKNOWN selected.
C1_UnknownRegister ==
    /\ (cmd = "IR TDI" /\ Prefix4(val) \notin KnownPrefixes)
        => state = "UNKNOWN"
    /\ (prev = "UNKNOWN" /\ cmd \in DRCommands)
        => (out = <<>> /\ state = "UNKNOWN" /\ fault = NoFault)

\* a DR shift has been received while UNKNOWN was selected
C1_Witness ==
    /\ prev = "UNKNOWN"
    /\ cmd = "DR TDO"
    /\ Len(val) = 9
    /\ state = "UNKNOWN"
    /\ out = <<>>

\* C2: once PDICOM is selected it stays selected over DR-shift events, well
\* formed or not, and state-only notifications; only an IR-shift event
\* changes it.
C2_PdicomPersists ==
    /\ (prev = "PDICOM" /\ cmd \in DRCommands \cup {"NEW STATE"})
        => state = "PDICOM"
    /\ (prev = "PDICOM" /\ state # "PDICOM") => cmd = "IR TDI"

\* a malformed frame has been received while PDICOM was selected
C2_Witness ==
    /\ prev = "PDICOM"
    /\ cmd = "DR TDO"
    /\ Len(val) = 8
    /\ state = "PDICOM"

\* C3: while IDCODE is selected a DR TDO event invokes the IDCODE handler
\* and then selects IDLE, and a DR TDI event emits no annotation and leaves
\* IDCODE selected.
C3_IdcodeDirection ==
    /\ (prev = "IDCODE" /\ cmd = "DR TDO")
        => (out # <<>> /\ state = "IDLE" /\ fault = NoFault)
    /\ (prev = "IDCODE" /\ cmd = "DR TDI")
        => (out = <<>> /\ state = "IDCODE")

\* the single annotation of the BYPASS handler for the event just decoded
BypassItem == <<Ann(ss, es, JTAG_ITEM, <<"BYPASS: " \o BitsText(val)>>)>>

\* C4 as stated: while BYPASS is selected every DR-shift event, TDI or TDO,
\* emits exactly one item-level annotation 'BYPASS: <bits>' and then selects
\* IDLE.
C4_BypassAnyDirection ==
    (prev = "BYPASS" /\ cmd \in DRCommands)
        => (out = BypassItem /\ state = "IDLE")

\* C4 as amended: while BYPASS is selected a DR TDI event emits exactly one
\* item-level annotation 'BYPASS: <bits>' and then selects IDLE; a DR TDO
\* event emits no annotation and leaves BYPASS selected.
C4_BypassTdiOnly ==
    /\ (prev = "BYPASS" /\ cmd = "DR TDI")
        => (out = BypassItem /\ state = "IDLE" /\ fault = NoFault)
    /\ (prev = "BYPASS" /\ cmd = "DR TDO")
        => (out = <<>> /\ state = "BYPASS" /\ fault = NoFault)

\* the BYPASS handler has run on a DR TDI event
C4_Witness ==
    /\ prev = "BYPASS"
    /\ cmd = "DR TDI"
    /\ state = "IDLE"
    /\ out = BypassItem

\* the (state, event) combinations that decode() handles
Handled(st, c) ==
    \/ c = "IR TDI"
    \/ st = "BYPASS" /\ c \in DRCommands
    \/ st = "IDCODE" /\ c = "DR TDO"
    \/ st = "PDICOM" /\ c \in DRCommands

\* C5: every other (state, event) combination is a no-op: no annotation,
\* the selected register unchanged, no fault.
C5_NoOp ==
    (cmd # "none" /\ ~Handled(prev, cmd))
        => (out = <<>> /\ state = prev /\ fault = NoFault)

\* a DR shift has been ignored while IDCODE was selected
C5_Witness ==
    /\ prev = "IDCODE"
    /\ cmd = "DR TDI"
    /\ state = "IDCODE"
    /\ out = <<>>

\* the number of one bits of a natural number
RECURSIVE PopCount(_)
PopCount(n) == IF n = 0 THEN 0 ELSE (n % 2) + PopCount(n \div 2)

\* the data value of a 9-bit frame: string indices 1..8, most significant
\* first
FrameData(f) ==
    128 * f[2] + 64 * f[3] + 32 * f[4] + 16 * f[5]
    + 8 * f[6] + 4 * f[7] + 2 * f[8] + f[9]

\* the parity bit of a 9-bit frame: string index 0
FrameParity(f) == f[1]

\* even parity over the data value and the parity bit
FrameValid(f) == (PopCount(FrameData(f)) + FrameParity(f)) % 2 = 0

\* the last event was a DR shift delivered to the PDI frame decoder
PdiShift == prev = "PDICOM" /\ cmd \in DRCommands

\* C6: for every 9-bit frame with parity bit p and data value d the frame
\* validator returns data_byte = d, and parity_ok = TRUE exactly when
\* popcount(d) + p is even.
C6_ParityResult ==
    (PdiShift /\ Len(val) = 9)
        => /\ ret.kind = "return"
           /\ ret.data = FrameData(val)
           /\ ret.parityOK = FrameValid(val)

\* the validator has accepted the frame 0 11111111
C6_Witness ==
    /\ PdiShift
    /\ val = <<0, 1, 1, 1, 1, 1, 1, 1, 1>>
    /\ ret = Returned(255, TRUE)

\* the annotations the dispatcher itself puts before it calls the validator
DispatcherAnns ==
    IF cmd = "DR TDO" THEN <<Ann(ss, es, JTAG_COMMAND, <<"PDICOM">>)>>
    ELSE <<>>

\* C7: for every bit string whose length is not 9 the frame validator
\* returns (0, false), emits no annotation and raises no fault.
C7_MalformedGuard ==
    (PdiShift /\ Len(val) # 9)
        => /\ ret = Returned(0, FALSE)
           /\ out = DispatcherAnns
           /\ fault = NoFault

\* the annotations of a category among those put for the last event
RECURSIVE OfClasses(_, _)
OfClasses(anns, classes) ==
    IF anns = <<>> THEN <<>>
    ELSE (IF anns[1].cls \in classes THEN <<anns[1]>> ELSE <<>>)
         \o OfClasses(Tail(anns), classes)

\* the label of a data byte sent with invalid parity
SpecialLabel(d) ==
    CASE d = 187 -> "BREAK"
      [] d = 219 -> "DELAY"
      [] d = 235 -> "EMPTY"
      [] OTHER   -> "INVALID"

\* C8: for every well-formed frame a special-character annotation is
\* emitted iff parity is invalid; its label is BREAK for 0xBB, DELAY for
\* 0xDB, EMPTY for 0xEB and INVALID otherwise, and its category is
\* programmer-data for host-to-device and device-data for device-to-host.
C8_SpecialCharacter ==
    (PdiShift /\ Len(val) = 9)
        => LET special == OfClasses(out, {DATA_PROG, DATA_DEV})
           IN  IF FrameValid(val) THEN special = <<>>
               ELSE /\ Len(special) = 1
                    /\ special[1].text = <<SpecialLabel(FrameData(val))>>
                    /\ special[1].cls =
                         IF cmd = "DR TDI" THEN DATA_PROG ELSE DATA_DEV

\* the device has sent 0xDB with invalid parity
C8_Witness ==
    /\ PdiShift
    /\ cmd = "DR TDO"
    /\ val = <<1, 1, 1, 0, 1, 1, 0, 1, 1>>
    /\ OfClasses(out, {DATA_PROG, DATA_DEV})
         = <<Ann(ss, es, DATA_DEV, <<"DELAY">>)>>

\* the categories of a sequence of annotations, in order
RECURSIVE Classes(_)
Classes(anns) ==
    IF anns = <<>> THEN <<>> ELSE <<anns[1].cls>> \o Classes(Tail(anns))

\* C9: for a well-formed DR shift while PDICOM is selected the annotations
\* are, in order: for device-to-host events the command annotation
\* 'PDICOM'; the data annotation of the direction; one parity annotation of
\* the direction-specific class; the special-character annotation only
\* when parity is invalid; and nothing else.
C9_AnnotationOrder ==
    (PdiShift /\ Len(val) = 9)
        => /\ Classes(out) =
                (IF cmd = "DR TDO" THEN <<JTAG_COMMAND>> ELSE <<>>)
                \o (IF cmd = "DR TDI" THEN <<DATA_IN>> ELSE <<DATA_OUT>>)
                \o (IF cmd = "DR TDI"
                    THEN (IF FrameValid(val) THEN <<PARITY_IN_OK>>
                          ELSE <<PARITY_IN_ERR, DATA_PROG>>)
                    ELSE (IF FrameValid(val) THEN <<PARITY_OUT_OK>>
                          ELSE <<PARITY_OUT_ERR, DATA_DEV>>))
           /\ cmd = "DR TDO" => out[1].text = <<"PDICOM">>

\* a device-to-host frame with invalid parity has put four annotations
C9_Witness ==
    /\ PdiShift
    /\ cmd = "DR TDO"
    /\ Len(val) = 9
    /\ Classes(out) = <<JTAG_COMMAND, DATA_OUT, PARITY_OUT_ERR, DATA_DEV>>

\* the IDCODE handler has decoded the last event
IdcodeDecoded ==
    /\ prev = "IDCODE"
    /\ cmd = "DR TDO"
    /\ Len(val) = 32
    /\ Len(out) = 6

\* the manufacturer and part the IDCODE handler reports
ReportsAtmel64A3U ==
    /\ out[2].text[1] = "Manufacturer: Atmel"
    /\ out[3].text[1] = "Part: ATXMega64A3U"

\* C10 as stated: a 32-bit string built as reserved(1) + manufacturer(11)
\* + part(16) + version(4) with manufacturer 0x1f and part 0x9642 decodes
\* to manufacturer 'Atmel' and part 'ATXMega64A3U', for every reserved bit
\* and version.
C10_ReservedFirst ==
    \A r \in ReservedVals, v \in VersionVals :
        (IdcodeDecoded /\ val = IdWordReversed(r, 31, 38466, v))
            => ReportsAtmel64A3U

\* C10 as amended: a 32-bit string built as version(4) + part(16)
\* + manufacturer(11) + reserved(1) with manufacturer 0x1f and part 0x9642
\* decodes to manufacturer 'Atmel' and part 'ATXMega64A3U', for every
\* reserved bit and version.
C10_VersionFirst ==
    \A r \in ReservedVals, v \in VersionVals :
        (IdcodeDecoded /\ val = IdWord(r, 31, 38466, v))
            => ReportsAtmel64A3U

\* the word with version 5 and the last bit set has been decoded
C10_Witness ==
    /\ IdcodeDecoded
    /\ val = IdWord(1, 31, 38466, 5)
    /\ ReportsAtmel64A3U

\* the payload of the end-to-end scenario: reserved = 0, manufacturer =
\* 0b00011111000, part = 0b1001011001000010, version = 0b0000, in the order
\* the fields are listed
ScenarioPayload == IdWordReversed(0, 248, 38466, 0)

\* the same field values with the version first
ScenarioPayloadVersionFirst == IdWord(0, 248, 38466, 0)

\* the last annotation put for the last event
LastAnn == out[Len(out)]

\* an IR shift starting with 0011 selects IDCODE
SelectsIdcode ==
    (cmd = "IR TDI" /\ Prefix4(val) = <<0, 0, 1, 1>>) => state = "IDCODE"

\* C11 as stated: after an IR shift with prefix 0011 the selected register
\* is IDCODE, and the last annotation of a following DR TDO shift of the
\* scenario payload is a command-level 'IDCODE: <hex> (Atmel:
\* ATXMega64A3U@r0)'; the payload is taken in either field order.
C11_ScenarioAtmel ==
    /\ SelectsIdcode
    /\ (prev = "IDCODE" /\ cmd = "DR TDO" /\ val = ScenarioPayload)
        => (out # <<>> /\ LastAnn = Ann(ss, es, JTAG_COMMAND,
                <<"IDCODE: 0xf896420 (Atmel: ATXMega64A3U@r0)">>))
    /\ (prev = "IDCODE" /\ cmd = "DR TDO"
        /\ val = ScenarioPayloadVersionFirst)
        => (out # <<>> /\ LastAnn = Ann(ss, es, JTAG_COMMAND,
                <<"IDCODE: 0x96421f0 (Atmel: ATXMega64A3U@r0)">>))

\* C11 as amended: after an IR shift with prefix 0011 the selected register
\* is IDCODE, and the last annotation of a following DR TDO shift of the
\* payload reserved, manufacturer, part, version (in this order) is the
\* command-level 'IDCODE: 0xf896420 (INVALID: 0xf896@r0)'.
C11_ScenarioInvalid ==
    /\ SelectsIdcode
    /\ (prev = "IDCODE" /\ cmd = "DR TDO" /\ val = ScenarioPayload)
        => (out # <<>> /\ LastAnn = Ann(ss, es, JTAG_COMMAND,
                <<"IDCODE: 0xf896420 (INVALID: 0xf896@r0)">>))

\* the scenario payload has been decoded
C11_Witness ==
    /\ prev = "IDCODE"
    /\ cmd = "DR TDO"
    /\ val = ScenarioPayload
    /\ state = "IDLE"
    /\ Len(out) = 6

\* the value of the characters a..b of a bit string, most significant first
RECURSIVE Horner(_, _)
Horner(bits, acc) ==
    IF bits = <<>> THEN acc ELSE Horner(Tail(bits), 2 * acc + Head(bits))

FieldValue(v, a, b) == Horner(SubSeq(v, a, b), 0)

\* the names the identification fields are reported with
ManufacturerName(m) == IF m = 31 THEN "Atmel" ELSE "INVALID"

PartName(p) ==
    CASE p = 38466 -> "ATXMega64A3U"
      [] p = 38722 -> "ATXMega128A3U"
      [] p = 38724 -> "ATXMega192A3U"
      [] p = 38978 -> "ATXMega256A3U"
      [] OTHER     -> HexText(p)

\* a 32-bit DR TDO shift has arrived while IDCODE was selected
IdcodeShift32 == prev = "IDCODE" /\ cmd = "DR TDO" /\ Len(val) = 32

\* an annotation from the start of sample index a to the end of sample
\* index b
Spanning(a, b, cls, text) ==
    Ann(samplenums[a + 1][1], samplenums[b + 1][2], cls, text)

\* C12: the IDCODE handler on a 32-bit shift emits exactly six annotations
\* in this order: field 'Reserved' at sample index 0, 'Manufacturer' over
\* 1..11, 'Part' over 12..27, 'Version' over 28..31, an item-level
\* 'IDCODE: <hex>' and a command-level 'IDCODE: <hex> (<manufacturer>:
\* <part>@r<version>)', both over the whole event.
C12_SixAnnotations ==
    IdcodeShift32 =>
        LET m == ManufacturerName(FieldValue(val, 21, 31))
            p == PartName(FieldValue(val, 5, 20))
            v == DecText(FieldValue(val, 1, 4))
            h == WideHexText(val)
        IN  out = <<
              Spanning(0, 0, JTAG_FIELD, <<"Reserved", "Res", "R">>),
              Spanning(1, 11, JTAG_FIELD,
                       <<"Manufacturer: " \o m, "Manuf", "M">>),
              Spanning(12, 27, JTAG_FIELD, <<"Part: " \o p, "Part", "P">>),
              Spanning(28, 31, JTAG_FIELD,
                       <<"Version: " \o v, "Version", "V">>),
              Ann(ss, es, JTAG_ITEM, <<"IDCODE: " \o h>>),
              Ann(ss, es, JTAG_COMMAND,
                  <<"IDCODE: " \o h \o " (" \o m \o ": " \o p
                    \o "@r" \o v \o ")">>) >>

\* a word with an unlisted part and version 12 has been decoded
C12_Witness ==
    /\ IdcodeShift32
    /\ val = IdWord(1, 31, 4660, 12)
    /\ Len(out) = 6
    /\ out[6].text = <<"IDCODE: 0xc123403f (Atmel: 0x1234@r12)">>

\* C13: the BYPASS and IDCODE handlers raise no fault for any input shape:
\* every DR shift of any length delivered while BYPASS or IDCODE is selected
\* is processed to completion and the decoder accepts the next event.
C13_HandlersNeverFault ==
    (prev \in {"BYPASS", "IDCODE"} /\ cmd \in DRCommands)
        => fault = NoFault

\* C14: a DR shift, TDI or TDO, of a length other than 9 while PDICOM is
\* selected is dropped entirely: no annotation of any category, PDICOM
\* stays selected and the decoder goes on to decode the next frame.
C14_MalformedDropped ==
    (PdiShift /\ Len(val) # 9)
        => (out = <<>> /\ state = "PDICOM" /\ fault = NoFault)

Registers == {"IDLE", "BYPASS", "IDCODE", "PDICOM", "UNKNOWN"}

\* C15: the selected register is always one of IDLE, BYPASS, IDCODE,
\* PDICOM, UNKNOWN; it is IDLE before the first event; a step that sets it
\* to IDLE is the completion of a BYPASS or IDCODE handler invocation;
\* PDICOM and UNKNOWN never move to IDLE and an IR shift never selects IDLE.
C15_IdleOnlyAfterHandler ==
    /\ state \in Registers
    /\ cmd = "none" => state = "IDLE"
    /\ (prev # "IDLE" /\ state = "IDLE")
        => \/ prev = "BYPASS" /\ cmd = "DR TDI" /\ out = BypassItem
           \/ prev = "IDCODE" /\ cmd = "DR TDO" /\ Len(out) = 6
    /\ prev \in {"PDICOM", "UNKNOWN"} => state # "IDLE"
    /\ cmd = "IR TDI" => state # "IDLE"

\* the IDCODE handler has completed and IDLE is selected again
C15_Witness ==
    /\ prev = "IDCODE"
    /\ cmd = "DR TDO"
    /\ state = "IDLE"
    /\ Len(out) = 6
    /\ fault = NoFault

\* the bit string v with its character i flipped
Flip(v, i) == SubSeq(v, 1, i - 1) \o <<1 - v[i]>> \o SubSeq(v, i + 1, Len(v))

\* what the frame validator hands back for the frame f in the direction of
\* the last event
ValidatorResult(f) ==
    checkParity(samplenums, ss, es, f,
                IF cmd = "DR TDI" THEN DATA_IN ELSE DATA_OUT).ret

\* C16: for every 9-bit frame, flipping exactly one of its 9 bits, the
\* parity bit or a data bit, flips the parity_ok the validator returns.
C16_FlipOneBit ==
    (PdiShift /\ Len(val) = 9)
        => /\ ret.kind = "return"
           /\ \A i \in 1..9 :
                /\ ValidatorResult(Flip(val, i)).kind = "return"
                /\ ValidatorResult(Flip(val, i)).parityOK = ~ret.parityOK

\* a valid frame whose parity bit, once flipped, makes it invalid
C16_Witness ==
    /\ PdiShift
    /\ val = <<1, 0, 0, 0, 0, 0, 0, 0, 1>>
    /\ ret = Returned(1, TRUE)
    /\ ValidatorResult(Flip(val, 1)) = Returned(1, FALSE)

\* the sample range the upstream source delivered for the character at
\* string index k of the last shift
RangeOfChar(k) == Delivered(Len(val))[k + 1]

\* the annotation a spans the sample ranges of exactly the characters at
\* the string indices in K
CoversExactly(a, K) ==
    \A k \in 0..(Len(val) - 1) :
        (k \in K) <=> (a.ss <= RangeOfChar(k)[1] /\ RangeOfChar(k)[2] <= a.es)

\* C17: for a well-formed frame whose sample ranges are delivered in the
\* order of the bit string, the data annotation spans exactly the ranges of
\* the 8 data bits (string indices 1..8) and the parity annotation exactly
\* the range of the parity bit (string index 0).
C17_FrameSampleRanges ==
    (PdiShift /\ Len(val) = 9)
        => LET data == OfClasses(out, {DATA_IN, DATA_OUT})
               par  == OfClasses(out, {PARITY_IN_OK, PARITY_IN_ERR,
                                       PARITY_OUT_OK, PARITY_OUT_ERR})
           IN  /\ Len(data) = 1
               /\ Len(par) = 1
               /\ CoversExactly(data[1], 1..8)
               /\ CoversExactly(par[1], {0})
               /\ data[1].ss = RangeOfChar(8)[1]
               /\ data[1].es = RangeOfChar(1)[2]
               /\ <<par[1].ss, par[1].es>> = RangeOfChar(0)

\* a host-to-device frame has been annotated: data over samples 0..15,
\* parity over samples 16..17
C17_Witness ==
    /\ PdiShift
    /\ cmd = "DR TDI"
    /\ val = <<0, 1, 1, 1, 1, 1, 1, 1, 1>>
    /\ Len(out) = 2
    /\ <<out[1].ss, out[1].es>> = <<0, 15>>
    /\ <<out[2].ss, out[2].es>> = <<16, 17>>

\* the register an instruction-register value selects
RegisterOf(v) ==
    CASE Prefix4(v) = <<0, 0, 1, 1>> -> "IDCODE"
      [] Prefix4(v) = <<0, 1, 1, 1>> -> "PDICOM"
      [] Prefix4(v) = <<1, 1, 1, 1>> -> "BYPASS"
      [] OTHER                       -> "UNKNOWN"

\* C18: an IR TDI event received in any state selects the register looked
\* up from the first 4 bits of its value, UNKNOWN when unmatched or when
\* fewer than 4 bits are supplied, whatever was selected before, and emits
\* exactly one annotation, the command-level 'IR: <register name>'.
C18_IrShiftSelects ==
    cmd = "IR TDI"
        => /\ state = RegisterOf(val)
           /\ Len(val) < 4 => state = "UNKNOWN"
           /\ out = <<Ann(ss, es, JTAG_COMMAND, <<"IR: " \o RegisterOf(val)>>)>>
           /\ fault = NoFault

\* a 5-bit IR shift has selected IDCODE while PDICOM was selected
C18_Witness ==
    /\ prev = "PDICOM"
    /\ cmd = "IR TDI"
    /\ val = <<0, 0, 1, 1, 0>>
    /\ state = "IDCODE"
    /\ out = <<Ann(ss, es, JTAG_COMMAND, <<"IR: IDCODE">>)>>

\* C19: when one DR TDI and one DR TDO event arrive, in either order, while
\* BYPASS or IDCODE is selected, the handler is invoked exactly once for
\* the pair and IDLE is selected after it; every further DR event emits no
\* annotation until the next IR shift.
C19_PairHandledOnce ==
    [][ /\ (/\ prev \in {"BYPASS", "IDCODE"}
            /\ cmd \in DRCommands
            /\ cmd' \in DRCommands
            /\ cmd' # cmd)
            => /\ state' = "IDLE"
               /\ fault' = NoFault
               /\ (out = <<>>) # (out' = <<>>)
        /\ (state = "IDLE" /\ cmd' \in DRCommands)
            => (out' = <<>> /\ state' = "IDLE") ]_vars

\* the field annotation whose short label is the given one
RECURSIVE WithLabel(_, _)
WithLabel(anns, label) ==
    IF anns = <<>> THEN <<>>
    ELSE (IF anns[1].cls = JTAG_FIELD /\ anns[1].text[2] = label
          THEN <<anns[1]>> ELSE <<>>)
         \o WithLabel(Tail(anns), label)

\* exactly one field annotation carries the label, and it spans the sample
\* ranges of exactly the characters at the string indices in K
FieldCovers(label, K) ==
    /\ Len(WithLabel(out, label)) = 1
    /\ CoversExactly(WithLabel(out, label)[1], K)

\* C20: for a 32-bit IDCODE shift whose sample ranges are delivered in the
\* order of the bit string, each field annotation covers exactly the ranges
\* of the characters its value was decoded from: 'Version' string indices
\* 0..3, 'Part' 4..19, 'Manufacturer' 20..30 and 'Reserved' 31; and the
\* values are decoded from these characters.
C20_FieldSampleRanges ==
    IdcodeShift32 =>
        /\ FieldCovers("Version", 0..3)
        /\ FieldCovers("Part", 4..19)
        /\ FieldCovers("Manuf", 20..30)
        /\ FieldCovers("Res", {31})
        /\ WithLabel(out, "Version")[1].text[1]
             = "Version: " \o DecText(FieldValue(val, 1, 4))
        /\ WithLabel(out, "Part")[1].text[1]
             = "Part: " \o PartName(FieldValue(val, 5, 20))
        /\ WithLabel(out, "Manuf")[1].text[1]
             = "Manufacturer: " \o ManufacturerName(FieldValue(val, 21, 31))

\* the fields of an identification word have been annotated: the last bit
\* over samples 0..1 and the version over samples 56..63
C20_Witness ==
    /\ IdcodeShift32
    /\ val = IdWord(1, 31, 38466, 9)
    /\ Len(out) = 6
    /\ <<out[1].ss, out[1].es>> = <<0, 1>>
    /\ <<out[4].ss, out[4].es>> = <<56, 63>>
    /\ out[4].text[1] = "Version: 9"

====
